---- MODULE Spec2Model ----
(***************************************************************************)
(* Rotated surface code lattice (qtcodes/circuits/rotated_surface.py):     *)
(* lattice parameters and geometry, the stabilize round of RotatedQubit,   *)
(* and parse_readout with the final-stabilizer extraction.                 *)
(*                                                                         *)
(* Encodings.                                                              *)
(*   - An Optional value is a sequence of length at most one: None is      *)
(*     <<>> and a present value v is <<v>> (Some(v)).                      *)
(*   - params["d"] as passed by the caller is a sequence of integers:      *)
(*     <<>> when the key is absent, <<n>> for a Number n, <<a, b>> for a   *)
(*     tuple.  After validation it is always the pair <<dh, dw>>.          *)
(*   - Python sequences are 0-based, TLA+ sequences 1-based: Python        *)
(*     xs[i] is xs[i + 1] here.  The tuple indices H, W, SYNX, SYNZ are    *)
(*     therefore 1, 2, 1, 2 for the source's 0, 1, 0, 1.                   *)
(*   - A str is a sequence of one-character strings.                       *)
(*   - The float coordinates of a syndrome hit are half-integers; an       *)
(*     event (float(T), row, col) is stored as <<T, 2*row, 2*col>>.        *)
(*   - A raised exception is a record [kind |-> "raise", exc |-> name].    *)
(***************************************************************************)
EXTENDS Integers, Sequences, FiniteSets, TLC

VARIABLES pc, params, geometry, cregisters, circ,
          readout_string, readout_type, ret

vars == <<pc, params, geometry, cregisters, circ,
          readout_string, readout_type, ret>>

None == <<>>
Some(v) == <<v>>

(* Tuple indices of _TopologicalLattice, shifted to 1-based. *)
H == 1
W == 2
SYNX == 1
SYNZ == 2
(* self.DW: the stride of the left-most column, i.e. the width index. *)
DW == W

(***************************************************************************)
(* Bounds of the model.                                                    *)
(***************************************************************************)
MaxDim == 7        \* largest lattice dimension passed to the constructor
MaxRounds == 3     \* largest number of stabilize calls
MaxParseData == 9  \* parse_readout is exercised on lattices up to this num_data
MaxChunks == 3     \* largest number of syndrome chunks in a readout string
MaxOnes == 2       \* largest number of "1" characters in a readout string

(***************************************************************************)
(* _params_validate_and_generate                                           *)
(***************************************************************************)
DefaultD == <<3, 3>>

IsNumber(d) == Len(d) = 1

(* The distance after the default, the square completion and the int map. *)
NormalizeD(d) ==
    IF d = <<>> THEN DefaultD
    ELSE IF IsNumber(d) THEN <<d[1], d[1]>>
    ELSE d

(* Python's x % 2 for any integer x (the result is 0 or 1). *)
PyMod2(x) == x % 2

(* Variant: only the width is validated. *)
DimsOddWidthOnly(d) == PyMod2(d[W]) = 1

DimsOdd(d) == ~(PyMod2(d[H]) # 1 \/ PyMod2(d[W]) # 1)

NumSyn(dh, dw) ==
    << ((dh + 1) \div 2) * (dw - 1), ((dw + 1) \div 2) * (dh - 1) >>

GeneratedParams(d) ==
    [ d |-> d,
      T |-> -1,
      num_readout |-> -1,
      num_lattice_readout |-> -1,
      num_data |-> d[H] * d[W],
      num_syn |-> NumSyn(d[H], d[W]) ]

(* The outcome of _params_validate_and_generate on self.params = p. *)
params_validate_and_generate(p) ==
    LET d == NormalizeD(p.d)
    IN  IF ~DimsOdd(d)
        THEN [kind |-> "raise", exc |-> "LatticeError", params |-> [d |-> d]]
        ELSE [kind |-> "ok", params |-> GeneratedParams(d)]

(***************************************************************************)
(* _set_geometry                                                           *)
(* A plaquette is <<syn, top_l, top_r, bot_l, bot_r>>: syn an integer, the *)
(* four data-qubit references Optional integers.                           *)
(***************************************************************************)
(* Variant: the last row is not truncated. *)
MxPlaquetteNoLastRow(syn, dh, dw) ==
    LET per_row_x == (dw - 1) \div 2
        row == syn \div per_row_x
        offset == syn % per_row_x
        start == (row - 1) * dw
        row_parity == row % 2
    IN  IF row = 0
        THEN <<syn, None, None, Some(syn * 2), Some(syn * 2 + 1)>>
        ELSE <<syn,
               Some(start + (offset * 2) + row_parity),
               Some(start + (offset * 2) + row_parity + 1),
               Some(start + dw + (offset * 2) + row_parity),
               Some(start + dw + (offset * 2) + row_parity + 1)>>

(* Variant: the last row starts one data qubit to the left. *)
MxPlaquetteLastRowUnshifted(syn, dh, dw) ==
    LET per_row_x == (dw - 1) \div 2
        row == syn \div per_row_x
        offset == syn % per_row_x
        start == (row - 1) * dw
        row_parity == row % 2
    IN  IF row = 0
        THEN <<syn, None, None, Some(syn * 2), Some(syn * 2 + 1)>>
        ELSE IF row = dh
        THEN <<syn, Some(start + (offset * 2)), Some(start + (offset * 2) + 1),
               None, None>>
        ELSE <<syn,
               Some(start + (offset * 2) + row_parity),
               Some(start + (offset * 2) + row_parity + 1),
               Some(start + dw + (offset * 2) + row_parity),
               Some(start + dw + (offset * 2) + row_parity + 1)>>

MxPlaquette(syn, dh, dw) ==
    LET per_row_x == (dw - 1) \div 2
        row == syn \div per_row_x
        offset == syn % per_row_x
        start == (row - 1) * dw
        row_parity == row % 2
    IN  IF row = 0
        THEN <<syn, None, None, Some(syn * 2), Some(syn * 2 + 1)>>
        ELSE IF row = dh
        THEN <<syn, Some(start + (offset * 2) + 1), Some(start + (offset * 2) + 2),
               None, None>>
        ELSE <<syn,
               Some(start + (offset * 2) + row_parity),
               Some(start + (offset * 2) + row_parity + 1),
               Some(start + dw + (offset * 2) + row_parity),
               Some(start + dw + (offset * 2) + row_parity + 1)>>

(* Variant: the first-column syndromes are not overwritten. *)
MzPlaquetteNoFirstColumn(syn, dh, dw) ==
    LET per_row_z == (dw + 1) \div 2
        row == syn \div per_row_z
        offset == syn % per_row_z
        start == row * dw
        row_parity == row % 2
        top_l == start + (offset * 2) - row_parity
        top_r == start + (offset * 2) - row_parity + 1
        bot_l == start + dw + (offset * 2) - row_parity
        bot_r == start + dw + (offset * 2) - row_parity + 1
    IN  IF row_parity = 0 /\ offset = per_row_z - 1
        THEN <<syn, Some(top_l), None, Some(bot_l), None>>
        ELSE <<syn, Some(top_l), Some(top_r), Some(bot_l), Some(bot_r)>>

MzPlaquette(syn, dh, dw) ==
    LET per_row_z == (dw + 1) \div 2
        row == syn \div per_row_z
        offset == syn % per_row_z
        start == row * dw
        row_parity == row % 2
        top_l == start + (offset * 2) - row_parity
        top_r == start + (offset * 2) - row_parity + 1
        bot_l == start + dw + (offset * 2) - row_parity
        bot_r == start + dw + (offset * 2) - row_parity + 1
    IN  IF row_parity = 0 /\ offset = per_row_z - 1
        THEN <<syn, Some(top_l), None, Some(bot_l), None>>
        ELSE IF row_parity = 1 /\ offset = 0
        THEN <<syn, None, Some(top_r), None, Some(bot_r)>>
        ELSE <<syn, Some(top_l), Some(top_r), Some(bot_l), Some(bot_r)>>

set_geometry(p) ==
    LET dh == p.d[H]
        dw == p.d[W]
    IN  [ mx |-> [i \in 1..p.num_syn[SYNX] |-> MxPlaquette(i - 1, dh, dw)],
          mz |-> [i \in 1..p.num_syn[SYNZ] |-> MzPlaquette(i - 1, dh, dw)] ]

EmptyGeometry == [mx |-> <<>>, mz |-> <<>>]

(***************************************************************************)
(* RotatedQubit.stabilize: the operations one round appends to the circuit *)
(***************************************************************************)
RegisterKey(T) == <<"syndrome", T>>

(* Variant: the X syndromes are measured into the low bits. *)
RoundOpsXLow(T, num_syn) ==
    <<  <<"add_register", T, num_syn[SYNX] + num_syn[SYNZ]>>,
        <<"entangle">> >>
    \o (IF num_syn[SYNZ] > 0
        THEN << <<"measure", "mz", T, 0, num_syn[SYNZ]>> >> ELSE <<>>)
    \o (IF num_syn[SYNX] > 0
        THEN << <<"measure", "mx", T, 0, num_syn[SYNX]>> >>
        ELSE <<>>)
    \o (IF num_syn[SYNZ] > 0 THEN << <<"reset", "mz">> >> ELSE <<>>)
    \o (IF num_syn[SYNX] > 0 THEN << <<"reset", "mx">> >> ELSE <<>>)
    \o << <<"barrier">> >>

(* measure entries: <<"measure", qregister, T, lo, hi>> measures the       *)
(* register into bits [lo, hi) of the classical register of round T.       *)
RoundOps(T, num_syn) ==
    <<  <<"add_register", T, num_syn[SYNX] + num_syn[SYNZ]>>,
        <<"entangle">> >>
    \o (IF num_syn[SYNZ] > 0
        THEN << <<"measure", "mz", T, 0, num_syn[SYNZ]>> >> ELSE <<>>)
    \o (IF num_syn[SYNX] > 0
        THEN << <<"measure", "mx", T, num_syn[SYNZ], num_syn[SYNZ] + num_syn[SYNX]>> >>
        ELSE <<>>)
    \o (IF num_syn[SYNZ] > 0 THEN << <<"reset", "mz">> >> ELSE <<>>)
    \o (IF num_syn[SYNX] > 0 THEN << <<"reset", "mx">> >> ELSE <<>>)
    \o << <<"barrier">> >>

NextT(T) == T + 1

(* dict assignment d[key] = value *)
DictSet(d, key, value) ==
    [k \in DOMAIN d \cup {key} |-> IF k = key THEN value ELSE d[k]]

EmptyDict == [k \in {} |-> 0]

(* ret records the last call made on the lattice and what it gave:        *)
(* [op |-> name, out |-> the value returned or the exception raised].      *)
NoCall == [op |-> "none"]

(***************************************************************************)
(* Strings and integers used as bit fields.                                *)
(* A non-negative Python int that the code only handles with ^, &, >> and  *)
(* << is the set of the positions of its 1 bits (position 0 is the least   *)
(* significant bit); Python ints are unbounded, and so is this.            *)
(***************************************************************************)
Reverse(s) == [i \in 1..Len(s) |-> s[Len(s) + 1 - i]]

IsDigit(c) == c \in {"0", "1", "2"}

DigitVal(c) == IF c = "0" THEN 0 ELSE IF c = "1" THEN 1 ELSE 2

(* str(v) for v in {0, 1} *)
Str(v) == IF v = 0 THEN "0" ELSE "1"

(* s * n for a one-character string s *)
Repeat(c, n) == [i \in 1..n |-> c]

(* Positions of " " in s. *)
Spaces(s) == {i \in 1..Len(s) : s[i] = " "}

Min(S) == CHOOSE x \in S : \A y \in S : x <= y

(* readout_string.split(" ") *)
RECURSIVE Split(_)
Split(s) ==
    IF Spaces(s) = {} THEN <<s>>
    ELSE LET i == Min(Spaces(s))
         IN  <<SubSeq(s, 1, i - 1)>> \o Split(SubSeq(s, i + 1, Len(s)))

(* int(x, base=2) is defined on non-empty strings of binary digits. *)
IsBinary(x) == Len(x) > 0 /\ \A i \in 1..Len(x) : x[i] \in {"0", "1"}

IntBase2(x) == {i \in 0..(Len(x) - 1) : x[Len(x) - i] = "1"}

BitXor(a, b) == (a \ b) \cup (b \ a)

BitAnd(a, b) == a \cap b

ShiftRight(a, n) == {i - n : i \in {j \in a : j >= n}}

(* Python slices s[n:] and s[:n] for n >= 0. *)
SliceFrom(s, n) == SubSeq(s, n + 1, Len(s))

SliceTo(s, n) == SubSeq(s, 1, IF n < Len(s) THEN n ELSE Len(s))

Raise(e) == [kind |-> "raise", exc |-> e]

(***************************************************************************)
(* extract_final_stabilizer_and_logical_readout_x / _z                     *)
(***************************************************************************)
(* The data-qubit references of a plaquette that are not None. *)
Refs(idx_list) == {idx_list[j][1] : j \in {k \in 2..5 : idx_list[k] # None}}

RECURSIVE SumSeq(_)
SumSeq(s) == IF s = <<>> THEN 0 ELSE s[1] + SumSeq(Tail(s))

(* sum([readout_values[idx] if idx is not None else 0 ...]) % 2 *)
StabilizerVal(readout_values, idx_list) ==
    SumSeq([j \in 1..4 |-> IF idx_list[j + 1] # None
                           THEN readout_values[idx_list[j + 1][1] + 1]
                           ELSE 0]) % 2

(* Variant: str(stabilizer_val) is appended instead of prepended. *)
StabilizerStringAppended(readout_values, plaquettes) ==
    [k \in 1..Len(plaquettes) |->
        Str(StabilizerVal(readout_values, plaquettes[k]))]

(* The string built by prepending str(stabilizer_val) plaquette by         *)
(* plaquette: the last plaquette comes first.                              *)
StabilizerString(readout_values, plaquettes) ==
    [k \in 1..Len(plaquettes) |->
        Str(StabilizerVal(readout_values, plaquettes[Len(plaquettes) + 1 - k]))]

(* range(0, stop, step) as a sequence, step > 0 *)
Range(stop, step) ==
    [k \in 1..((stop + step - 1) \div step) |-> (k - 1) * step]

LogicalParity(readout_values, indices) ==
    SumSeq([k \in 1..Len(indices) |-> readout_values[indices[k] + 1]]) % 2

(* Indices read by the X logical readout: the left-most column. *)
LogicalIndicesX(p) == Range(p.num_data, p.d[DW])

(* Variant: the top-most row is read one qubit short. *)
LogicalIndicesZShort(p) == Range(p.d[W] - 1, 1)

(* Indices read by the Z logical readout: the top-most row. *)
LogicalIndicesZ(p) == Range(p.d[W], 1)

(* A list index past the end raises IndexError (indices are never          *)
(* negative here).                                                         *)
OutOfRange(readout_values, indices) ==
    \E i \in indices : i >= Len(readout_values)

AllRefs(plaquettes) ==
    UNION {Refs(plaquettes[k]) : k \in 1..Len(plaquettes)}

SeqRange(s) == {s[k] : k \in 1..Len(s)}

extract_final_stabilizer_and_logical_readout_x(p, g, final_readout_string, previous_syndrome_string) ==
    IF \E i \in 1..Len(final_readout_string) : ~IsDigit(final_readout_string[i])
    THEN Raise("ValueError")
    ELSE LET readout_values ==
                 Reverse([i \in 1..Len(final_readout_string) |->
                              DigitVal(final_readout_string[i])])
         IN  IF OutOfRange(readout_values, AllRefs(g.mx))
             THEN Raise("IndexError")
             ELSE IF OutOfRange(readout_values, SeqRange(LogicalIndicesX(p)))
             THEN Raise("IndexError")
             ELSE [ kind |-> "ok",
                    logical_readout |->
                        LogicalParity(readout_values, LogicalIndicesX(p)),
                    stabilizer_str |->
                        StabilizerString(readout_values, g.mx)
                        \o SliceFrom(previous_syndrome_string, p.num_syn[SYNX]) ]

extract_final_stabilizer_and_logical_readout_z(p, g, final_readout_string, previous_syndrome_string) ==
    IF \E i \in 1..Len(final_readout_string) : ~IsDigit(final_readout_string[i])
    THEN Raise("ValueError")
    ELSE LET readout_values ==
                 Reverse([i \in 1..Len(final_readout_string) |->
                              DigitVal(final_readout_string[i])])
         IN  IF OutOfRange(readout_values, AllRefs(g.mz))
             THEN Raise("IndexError")
             ELSE IF OutOfRange(readout_values, SeqRange(LogicalIndicesZ(p)))
             THEN Raise("IndexError")
             ELSE [ kind |-> "ok",
                    logical_readout |->
                        LogicalParity(readout_values, LogicalIndicesZ(p)),
                    stabilizer_str |->
                        SliceTo(previous_syndrome_string, p.num_syn[SYNX])
                        \o StabilizerString(readout_values, g.mz) ]

(* Variant: every readout_type other than "X" is read as "Z". *)
ExtractWrapperElseZ(p, g, final_readout_string, previous_syndrome_string, type) ==
    IF type = "X"
    THEN extract_final_stabilizer_and_logical_readout_x(
             p, g, final_readout_string, previous_syndrome_string)
    ELSE extract_final_stabilizer_and_logical_readout_z(
             p, g, final_readout_string, previous_syndrome_string)

(* The wrapper returns None for a readout_type other than "X" and "Z". *)
extract_final_stabilizer_and_logical_readout(p, g, final_readout_string, previous_syndrome_string, type) ==
    IF type = "X"
    THEN extract_final_stabilizer_and_logical_readout_x(
             p, g, final_readout_string, previous_syndrome_string)
    ELSE IF type = "Z"
    THEN extract_final_stabilizer_and_logical_readout_z(
             p, g, final_readout_string, previous_syndrome_string)
    ELSE [kind |-> "None"]

(***************************************************************************)
(* parse_readout                                                           *)
(***************************************************************************)
(* Variant: the X rows start at 0.5 instead of -0.5. *)
XCoordRowShifted(loc, dw) ==
    LET per_row_x == dw \div 2
    IN  << 1 + 2 * (loc \div per_row_x),
           (1 + 2 * ((loc \div per_row_x) % 2)) + 4 * (loc % per_row_x) >>

(* Coordinates of the X syndrome at bit loc, in half units:                *)
(* row = -0.5 + loc // per_row_x,                                          *)
(* col = (0.5 + (loc // per_row_x) % 2) + (loc % per_row_x) * 2.           *)
XCoord(loc, dw) ==
    LET per_row_x == dw \div 2
    IN  << -1 + 2 * (loc \div per_row_x),
           (1 + 2 * ((loc \div per_row_x) % 2)) + 4 * (loc % per_row_x) >>

(* row = 0.5 + loc // per_row_z,                                           *)
(* col = (0.5 - (loc // per_row_z) % 2) + (loc % per_row_z) * 2.           *)
ZCoord(loc, dw) ==
    LET per_row_z == dw \div 2 + 1
    IN  << 1 + 2 * (loc \div per_row_z),
           (1 - 2 * ((loc \div per_row_z) % 2)) + 4 * (loc % per_row_z) >>

(* The nested loops over enumerate(syndromes) and range(n): one event per  *)
(* set bit, in the order of T and then of loc.                             *)
Hits(syndromes, n) ==
    SelectSeq([k \in 1..(Len(syndromes) * n) |-> <<(k - 1) \div n, (k - 1) % n>>],
              LAMBDA tl : tl[2] \in syndromes[tl[1] + 1])

XEvents(x_syndromes, n, dw) ==
    LET hits == Hits(x_syndromes, n)
    IN  [k \in 1..Len(hits) |-> <<hits[k][1]>> \o XCoord(hits[k][2], dw)]

ZEvents(z_syndromes, n, dw) ==
    LET hits == Hits(z_syndromes, n)
    IN  [k \in 1..Len(hits) |-> <<hits[k][1]>> \o ZCoord(hits[k][2], dw)]

(* [a ^ b for (a, b) in zip(int_syndromes, int_syndromes[1:])] *)
XorSyndromes(int_syndromes) ==
    [k \in 1..(Len(int_syndromes) - 1) |->
        BitXor(int_syndromes[k], int_syndromes[k + 1])]

(* Variant: the masked X field is not shifted down. *)
XSyndromesNoShift(xor_syndromes, num_syn) ==
    LET mask_x == Repeat("1", num_syn[SYNX]) \o Repeat("0", num_syn[SYNZ])
    IN  [k \in 1..Len(xor_syndromes) |->
            BitAnd(xor_syndromes[k], IntBase2(mask_x))]

(* (x & int(mask_x, base=2)) >> num_syn[SYNZ] *)
XSyndromes(xor_syndromes, num_syn) ==
    LET mask_x == Repeat("1", num_syn[SYNX]) \o Repeat("0", num_syn[SYNZ])
    IN  [k \in 1..Len(xor_syndromes) |->
            ShiftRight(BitAnd(xor_syndromes[k], IntBase2(mask_x)), num_syn[SYNZ])]

(* x & int(mask_z, base=2), or no entry at all when mask_z is empty *)
ZSyndromes(xor_syndromes, num_syn) ==
    LET mask_z == Repeat("1", num_syn[SYNZ])
    IN  IF mask_z # <<>>
        THEN [k \in 1..Len(xor_syndromes) |->
                 BitAnd(xor_syndromes[k], IntBase2(mask_z))]
        ELSE <<>>

(* The part of parse_readout after the first chunk is handled. *)
ParseChunks(p, logical_readout, chunks) ==
    IF \E k \in 1..Len(chunks) : ~IsBinary(chunks[k])
    THEN Raise("ValueError")
    ELSE LET int_syndromes == [k \in 1..Len(chunks) |-> IntBase2(Reverse(chunks)[k])]
             xor_syndromes == XorSyndromes(int_syndromes)
             num_syn == p.num_syn
             dw == p.d[W]
         IN  [ kind |-> "ok",
               logical_readout |-> logical_readout,
               X |-> XEvents(XSyndromes(xor_syndromes, num_syn), num_syn[SYNX], dw),
               Z |-> ZEvents(ZSyndromes(xor_syndromes, num_syn), num_syn[SYNZ], dw) ]

parse_readout(p, g, string, type) ==
    LET chunks == Split(string)
    IN  IF Len(chunks[1]) > 1
        THEN IF type = None
             THEN Raise("AssertionError")
             ELSE IF Len(chunks) < 2
             THEN Raise("IndexError")
             ELSE LET r == extract_final_stabilizer_and_logical_readout(
                               p, g, chunks[1], chunks[2], type[1])
                  IN  IF r.kind = "None" THEN Raise("TypeError")
                      ELSE IF r.kind = "raise" THEN r
                      ELSE ParseChunks(p, r.logical_readout,
                                       <<r.stabilizer_str>> \o Tail(chunks))
        ELSE IF Len(chunks[1]) = 0 \/ ~IsDigit(chunks[1][1])
             THEN Raise("ValueError")
             ELSE ParseChunks(p, DigitVal(chunks[1][1]), Tail(chunks))

(***************************************************************************)
(* Inputs of the constructor.                                              *)
(***************************************************************************)
DInputs ==
    {<<>>} \cup {<<n>> : n \in 1..MaxDim}
           \cup {<<a, b>> : a \in 1..MaxDim, b \in 1..MaxDim}

(***************************************************************************)
(* Inputs of parse_readout: readout strings over the characters "0", "1",  *)
(* "2", "x" and " ".                                                       *)
(***************************************************************************)
RECURSIVE SubsetsUpTo(_, _)
(* The subsets of 1..n with at most k elements. *)
SubsetsUpTo(n, k) ==
    IF k = 0 THEN {{}}
    ELSE LET prev == SubsetsUpTo(n, k - 1)
         IN  prev \cup {S \cup {i} : S \in prev, i \in 1..n}

(* The string of a first chunk of width first_w followed by R chunks of    *)
(* width w, chunks separated by one space, with "1" exactly at the bit     *)
(* positions in S (bits numbered from the left, spaces not counted).       *)
MakeReadout(first_w, R, w, S) ==
    [i \in 1..(first_w + R * (w + 1)) |->
        IF i <= first_w THEN (IF i \in S THEN "1" ELSE "0")
        ELSE LET q == i - first_w - 1
             IN  IF q % (w + 1) = 0 THEN " "
                 ELSE IF (first_w + (q \div (w + 1)) * w + (q % (w + 1))) \in S
                      THEN "1" ELSE "0"]

WellFormed(first_w, w, ones) ==
    UNION { {MakeReadout(first_w, R, w, S) : S \in SubsetsUpTo(first_w + R * w, ones)}
            : R \in 0..MaxChunks }

(* Index in the string of the first character of chunk j (j = 0 is the     *)
(* first chunk).                                                           *)
ChunkStart(first_w, w, j) ==
    IF j = 0 THEN 1 ELSE first_w + 2 + (j - 1) * (w + 1)

DropAt(s, i) == SubSeq(s, 1, i - 1) \o SubSeq(s, i + 1, Len(s))

InsertAt(s, i, c) == SubSeq(s, 1, i - 1) \o <<c>> \o SubSeq(s, i, Len(s))

ReplaceAt(s, i, c) == [s EXCEPT ![i] = c]

(* Strings with one chunk one character short, one character long, or      *)
(* holding a character that is not a binary digit.                         *)
Malformed(first_w, w, ones) ==
    UNION { UNION { { DropAt(s, i), InsertAt(s, i, "1"),
                      ReplaceAt(s, i, "2"), ReplaceAt(s, i, "x") }
                    : i \in {ChunkStart(first_w, w, j) : j \in 0..MaxChunks}
                             \cap 1..Len(s) }
            : s \in WellFormed(first_w, w, ones) }

OnesBudget(p) == IF p.num_data <= MaxParseData THEN MaxOnes ELSE 1

(* The calls parse_readout(readout_string, readout_type) drawn for a       *)
(* lattice with parameters p.                                              *)
ReadoutInputs(p) ==
    LET w == p.num_syn[SYNX] + p.num_syn[SYNZ]
        n == p.num_data
    IN  (WellFormed(1, w, OnesBudget(p)) \X {None})
        \cup (WellFormed(n, w, Min({OnesBudget(p), 2})) \X {Some("X"), Some("Z")})
        \cup (WellFormed(n, w, 1) \X {None, Some("Y")})
        \cup (Malformed(1, w, Min({OnesBudget(p) - 1, 1})) \X {None})
        \cup (Malformed(n, w, Min({OnesBudget(p) - 1, 1}))
                  \X {Some("X"), Some("Z")})

(***************************************************************************)
(* Lifecycle of one logical qubit: construction, then stabilize rounds.    *)
(***************************************************************************)
Init ==
    /\ pc = "new"
    /\ params \in {[d |-> d] : d \in DInputs}
    /\ geometry = EmptyGeometry
    /\ cregisters = EmptyDict
    /\ circ = <<>>
    /\ readout_string = <<>>
    /\ readout_type = None
    /\ ret = NoCall

(* _RotatedLattice.__init__: validate, generate params, build geometry. *)
Construct ==
    /\ pc = "new"
    /\ LET r == params_validate_and_generate(params)
       IN  /\ params' = r.params
           /\ IF r.kind = "raise"
              THEN /\ pc' = r.exc
                   /\ geometry' = geometry
              ELSE /\ pc' = "ready"
                   /\ geometry' = set_geometry(r.params)
    /\ UNCHANGED <<cregisters, circ, readout_string, readout_type, ret>>

stabilize ==
    /\ pc = "ready"
    /\ params.T + 1 < MaxRounds
    /\ LET T == NextT(params.T)
           num_syn == params.num_syn
       IN  /\ params' = [params EXCEPT !.T = T]
           /\ cregisters' = DictSet(cregisters, RegisterKey(T),
                                    num_syn[SYNX] + num_syn[SYNZ])
           /\ circ' = circ \o RoundOps(T, num_syn)
    /\ UNCHANGED <<pc, geometry, readout_string, readout_type, ret>>

Next == Construct \/ stabilize

Spec == Init /\ [][Next]_vars

(***************************************************************************)
(* parse_readout applied to drawn readout strings, on the lattices built   *)
(* for odd dimensions of at least 3.                                       *)
(***************************************************************************)
ParseDims ==
    {d \in DInputs : Len(d) = 2 /\ DimsOdd(d) /\ d[H] >= 3 /\ d[W] >= 3}

InitParse ==
    /\ pc = "ready"
    /\ params \in {params_validate_and_generate([d |-> d]).params : d \in ParseDims}
    /\ geometry = set_geometry(params)
    /\ cregisters = EmptyDict
    /\ circ = <<>>
    /\ \E call \in ReadoutInputs(params) :
           /\ readout_string = call[1]
           /\ readout_type = call[2]
    /\ ret = NoCall

ParseReadout ==
    /\ pc = "ready"
    /\ ret' = [op |-> "parse_readout",
               out |-> parse_readout(params, geometry, readout_string, readout_type)]
    /\ UNCHANGED <<pc, params, geometry, cregisters, circ,
                   readout_string, readout_type>>

(* A direct call of extract_final_stabilizer_and_logical_readout on the    *)
(* first two chunks of the readout string, with a readout_type given.      *)
ExtractFinal ==
    /\ pc = "ready"
    /\ readout_type # None
    /\ Len(Split(readout_string)) >= 2
    /\ ret' = [op |-> "extract_final_stabilizer_and_logical_readout",
               out |-> extract_final_stabilizer_and_logical_readout(
                           params, geometry,
                           Split(readout_string)[1], Split(readout_string)[2],
                           readout_type[1])]
    /\ UNCHANGED <<pc, params, geometry, cregisters, circ,
                   readout_string, readout_type>>

NextParse == ParseReadout \/ ExtractFinal

SpecParse == InitParse /\ [][NextParse]_vars


(***************************************************************************)
(* Properties of the constructed lattice and of stabilize (Spec).          *)
(***************************************************************************)
PlaquetteSet == SeqRange(geometry.mx) \cup SeqRange(geometry.mz)

(* C1: for all odd dh, dw >= 3, after the lattice is built num_data equals *)
(* dh*dw and every non-absent data-qubit reference of every plaquette of   *)
(* geometry["mx"] and geometry["mz"] is an integer in [0, num_data).       *)
C1_RefsInRange ==
    (pc = "ready" /\ params.d[H] >= 3 /\ params.d[W] >= 3) =>
        /\ params.num_data = params.d[H] * params.d[W]
        /\ \A pl \in PlaquetteSet : \A j \in 2..5 :
               pl[j] # None => pl[j][1] \in 0..(params.num_data - 1)

C1_Witness ==
    /\ pc = "ready"
    /\ params.d = <<5, 7>>
    /\ \E pl \in SeqRange(geometry.mx) : pl[2] = Some(33) /\ pl[4] = None

(* The height and width the constructor is asked for. *)
AskedH(d) == IF d = <<>> THEN 3 ELSE IF Len(d) = 1 THEN d[1] ELSE d[H]

AskedW(d) == IF d = <<>> THEN 3 ELSE IF Len(d) = 1 THEN d[1] ELSE d[W]

(* C6: configuring a lattice with d an integer (the square (d, d)) or a    *)
(* pair (dh, dw) raises LatticeError if and only if dh or dw is even; when *)
(* accepted, T is -1, num_data = dh*dw and                                 *)
(* num_syn = (((dh+1)//2)*(dw-1), ((dw+1)//2)*(dh-1)).                     *)
C6_LatticeErrorIffEven ==
    [][ (pc = "new" /\ pc' # "new") =>
            LET dh == AskedH(params.d)
                dw == AskedW(params.d)
            IN  /\ (pc' = "LatticeError") <=> (dh % 2 = 0 \/ dw % 2 = 0)
                /\ (pc' # "LatticeError") =>
                       /\ pc' = "ready"
                       /\ params'.T = -1
                       /\ params'.num_data = dh * dw
                       /\ params'.num_syn = << ((dh + 1) \div 2) * (dw - 1),
                                               ((dw + 1) \div 2) * (dh - 1) >> ]_vars

C6_Witness == pc = "LatticeError" /\ params.d = <<4, 3>>

(* The number of barriers in the circuit: one per stabilize call. *)
Barriers == Len(SelectSeq(circ, LAMBDA o : o[1] = "barrier"))

ExpectedRound(i, nx, nz) ==
    << <<"add_register", i, nx + nz>>,
       <<"entangle">>,
       <<"measure", "mz", i, 0, nz>>,
       <<"measure", "mx", i, nz, nz + nx>>,
       <<"reset", "mz">>,
       <<"reset", "mx">>,
       <<"barrier">> >>

RECURSIVE ExpectedCirc(_, _, _)
ExpectedCirc(n, nx, nz) ==
    IF n = 0 THEN <<>>
    ELSE ExpectedCirc(n - 1, nx, nz) \o ExpectedRound(n - 1, nx, nz)

(* C10: on a freshly built logical qubit, after n >= 1 stabilize calls T   *)
(* equals n-1, the register table holds exactly the registers syndrome0 .. *)
(* syndrome{n-1}, each of width num_syn_X + num_syn_Z, and the circuit is  *)
(* the rounds 0 .. n-1 in order, each round being: allocate register,      *)
(* entangle, measure Z into bits [0, num_syn_Z), measure X into bits       *)
(* [num_syn_Z, num_syn_Z + num_syn_X), reset, barrier.                     *)
C10_StabilizeRounds ==
    (pc = "ready" /\ params.d[H] >= 3 /\ params.d[W] >= 3) =>
        LET n == Barriers
            nx == params.num_syn[SYNX]
            nz == params.num_syn[SYNZ]
        IN  /\ params.T = n - 1
            /\ DOMAIN cregisters = {<<"syndrome", i>> : i \in 0..(n - 1)}
            /\ \A i \in 0..(n - 1) : cregisters[<<"syndrome", i>>] = nx + nz
            /\ circ = ExpectedCirc(n, nx, nz)

C10_Witness ==
    /\ pc = "ready"
    /\ params.d = <<3, 5>>
    /\ params.T = 2
    /\ Barriers = 3


(***************************************************************************)
(* Properties of parse_readout and of the final-round reconstruction       *)
(* (SpecParse).                                                            *)
(***************************************************************************)
Chunks == Split(readout_string)

NumSynX == params.num_syn[SYNX]

NumSynZ == params.num_syn[SYNZ]

Width == NumSynX + NumSynZ

IsBits(x, n) == Len(x) = n /\ \A i \in 1..n : x[i] \in {"0", "1"}

(* At least one syndrome chunk, every one binary and of the full width. *)
SyndromeChunksOk ==
    /\ Len(Chunks) >= 2
    /\ \A k \in 2..Len(Chunks) : IsBits(Chunks[k], Width)

(* A single logical bit followed by well-formed syndrome chunks. *)
LogicalCall == IsBits(Chunks[1], 1) /\ SyndromeChunksOk

(* A full-lattice readout parsed with the given axis. *)
LatticeCall(axis) ==
    /\ readout_type = Some(axis)
    /\ IsBits(Chunks[1], params.num_data)
    /\ SyndromeChunksOk

Parsed == ret.op = "parse_readout"

Extracted == ret.op = "extract_final_stabilizer_and_logical_readout"

(* The syndrome rounds of a logical-bit readout, oldest first. *)
Rounds == Reverse(Tail(Chunks))

(* The character holding bit loc of the field of the axis: the X field is  *)
(* the high num_syn_X bits, the Z field the low num_syn_Z bits.            *)
FieldChar(chunk, axis, loc) ==
    IF axis = "X" THEN chunk[NumSynX - loc] ELSE chunk[Width - loc]

(* The pairs <<T, loc>> at which bit loc of the field differs between the  *)
(* rounds T and T+1, in the order of T and then of loc.                    *)
Differing(rounds, axis, n) ==
    SelectSeq([k \in 1..((Len(rounds) - 1) * n) |-> <<(k - 1) \div n, (k - 1) % n>>],
              LAMBDA tl : FieldChar(rounds[tl[1] + 1], axis, tl[2])
                          # FieldChar(rounds[tl[1] + 2], axis, tl[2]))

EventsAt(events, T) == SelectSeq(events, LAMBDA e : e[1] = T)

(* C3: for a single logical bit followed by R >= 1 syndrome chunks given   *)
(* most-recent-first, parse_readout emits an event with time T for         *)
(* plaquette loc of axis A exactly when bit loc of field A differs between *)
(* the chronological rounds T and T+1, T in 0..R-2; two identical          *)
(* consecutive rounds give no event at that time step.                     *)
C3_EventsAreDifferingBits ==
    (Parsed /\ LogicalCall) =>
        LET dx == Differing(Rounds, "X", NumSynX)
            dz == Differing(Rounds, "Z", NumSynZ)
            out == ret.out
        IN  /\ out.kind = "ok"
            /\ out.X = [k \in 1..Len(dx) |->
                           <<dx[k][1]>> \o XCoord(dx[k][2], params.d[W])]
            /\ out.Z = [k \in 1..Len(dz) |->
                           <<dz[k][1]>> \o ZCoord(dz[k][2], params.d[W])]
            /\ \A e \in SeqRange(out.X) \cup SeqRange(out.Z) :
                   e[1] \in 0..(Len(Rounds) - 2)
            /\ \A T \in 0..(Len(Rounds) - 2) :
                   Rounds[T + 1] = Rounds[T + 2] =>
                       EventsAt(out.X, T) = <<>> /\ EventsAt(out.Z, T) = <<>>

C3_Witness ==
    /\ Parsed /\ LogicalCall
    /\ Len(Rounds) = 3
    /\ ret.out.kind = "ok"
    /\ \E e \in SeqRange(ret.out.X) : e[1] = 0
    /\ \E e \in SeqRange(ret.out.Z) : e[1] = 1

(* The reference a plaquette centred at (row2/2, col2/2) holds at the      *)
(* corner (dr/2, dc/2) away from its centre: data qubit idx sits at grid   *)
(* position (idx // dw, idx % dw); no reference outside the grid.          *)
CellRef(row2, col2, dr, dc, dh, dw) ==
    LET r2 == row2 + dr
        c2 == col2 + dc
    IN  IF r2 >= 0 /\ r2 <= 2 * (dh - 1) /\ c2 >= 0 /\ c2 <= 2 * (dw - 1)
        THEN Some((r2 \div 2) * dw + (c2 \div 2))
        ELSE None

CellMatch(pl, row2, col2, dh, dw) ==
    /\ row2 % 2 = 1
    /\ col2 % 2 = 1
    /\ pl[2] = CellRef(row2, col2, -1, -1, dh, dw)
    /\ pl[3] = CellRef(row2, col2, -1, 1, dh, dw)
    /\ pl[4] = CellRef(row2, col2, 1, -1, dh, dw)
    /\ pl[5] = CellRef(row2, col2, 1, 1, dh, dw)

(* C2: for odd dh, dw >= 3 the (row, col) parse_readout emits for a set    *)
(* bit at position loc of the X (Z) field is the centre of the 2x2 cell of *)
(* geometry["mx"][loc] (geometry["mz"][loc]): top_l, top_r, bot_l, bot_r   *)
(* are the qubits at (row -+ 0.5, col -+ 0.5) when that position is inside *)
(* the grid and absent exactly when it is outside; X plaquettes of the     *)
(* first and last row have 2 references, those of interior rows 4.         *)
C2_EventIsCellCentre ==
    (Parsed /\ LogicalCall /\ ret.out.kind = "ok") =>
        LET dx == Differing(Rounds, "X", NumSynX)
            dz == Differing(Rounds, "Z", NumSynZ)
            dh == params.d[H]
            dw == params.d[W]
            X == ret.out.X
            Z == ret.out.Z
        IN  /\ Len(X) = Len(dx)
            /\ Len(Z) = Len(dz)
            /\ \A k \in 1..Len(X) :
                   LET pl == geometry.mx[dx[k][2] + 1]
                   IN  /\ pl[1] = dx[k][2]
                       /\ CellMatch(pl, X[k][2], X[k][3], dh, dw)
                       /\ Cardinality(Refs(pl)) =
                              IF X[k][2] = -1 \/ X[k][2] = 2 * dh - 1 THEN 2 ELSE 4
            /\ \A k \in 1..Len(Z) :
                   LET pl == geometry.mz[dz[k][2] + 1]
                   IN  /\ pl[1] = dz[k][2]
                       /\ CellMatch(pl, Z[k][2], Z[k][3], dh, dw)

C2_Witness ==
    /\ Parsed /\ LogicalCall
    /\ ret.out.kind = "ok"
    /\ params.d = <<3, 3>>
    /\ \E e \in SeqRange(ret.out.X) : e[2] = 2 * params.d[H] - 1
    /\ \E e \in SeqRange(ret.out.Z) : e[3] = -1


(* Data qubit q is the q-th character from the right of the first chunk. *)
DataBit(first, q) == first[Len(first) - q]

(* The mod-2 sum of the readout values of the data qubits of a plaquette. *)
PlaquetteParity(first, pl) ==
    Cardinality({q \in Refs(pl) : DataBit(first, q) = "1"}) % 2

OtherAxis(axis) == IF axis = "X" THEN "Z" ELSE "X"

(* C4: for a full-lattice readout of num_data bits with axis A in {X, Z}   *)
(* the reconstructed final-round string has width num_syn_X + num_syn_Z;   *)
(* bit i of its field A is the mod-2 sum of the readout values of the data *)
(* qubits of plaquette i of type A, its other field is copied from         *)
(* chunks[1], X bits high and Z bits low; an all-zero readout with an      *)
(* all-zero previous round gives an all-zero string, and the last time     *)
(* step of the parse holds no event of the other axis.                     *)
C4_FinalStabilizerString ==
    /\ \A axis \in {"X", "Z"} : (Extracted /\ LatticeCall(axis)) =>
           LET first == Chunks[1]
               prev == Chunks[2]
               out == ret.out
           IN  /\ out.kind = "ok"
               /\ Len(out.stabilizer_str) = Width
               /\ IF axis = "X"
                  THEN /\ \A i \in 0..(NumSynX - 1) :
                              out.stabilizer_str[NumSynX - i]
                                  = Str(PlaquetteParity(first, geometry.mx[i + 1]))
                       /\ \A j \in (NumSynX + 1)..Width :
                              out.stabilizer_str[j] = prev[j]
                  ELSE /\ \A i \in 0..(NumSynZ - 1) :
                              out.stabilizer_str[Width - i]
                                  = Str(PlaquetteParity(first, geometry.mz[i + 1]))
                       /\ \A j \in 1..NumSynX :
                              out.stabilizer_str[j] = prev[j]
               /\ (first = Repeat("0", params.num_data) /\ prev = Repeat("0", Width))
                      => out.stabilizer_str = Repeat("0", Width)
    /\ \A axis \in {"X", "Z"} : (Parsed /\ LatticeCall(axis)) =>
           /\ ret.out.kind = "ok"
           /\ EventsAt(ret.out[OtherAxis(axis)], Len(Chunks) - 2) = <<>>

C4_Witness ==
    /\ Extracted /\ LatticeCall("X")
    /\ ret.out.kind = "ok"
    /\ \E i \in 1..NumSynX : ret.out.stabilizer_str[i] = "1"
    /\ \E j \in (NumSynX + 1)..Width : ret.out.stabilizer_str[j] = "1"

(* The first chunk with the readout value of data qubit q flipped. *)
Flip(first, q) ==
    [first EXCEPT ![Len(first) - q] = IF @ = "0" THEN "1" ELSE "0"]

(* The logical readout of a full-lattice readout along an axis. *)
Logical(first, axis) ==
    extract_final_stabilizer_and_logical_readout(
        params, geometry, first, Chunks[2], axis).logical_readout

XorOf(first, qubits) ==
    Cardinality({q \in qubits : DataBit(first, q) = "1"}) % 2

(* C5: for d=3 and a full-lattice readout the X logical readout is the XOR *)
(* of the data qubits 0, 3, 6 and the Z logical readout the XOR of the     *)
(* data qubits 0, 1, 2; all data qubits 0 gives 0 for both; flipping one   *)
(* data qubit of the leftmost column toggles the X logical readout, and    *)
(* leaves the Z logical readout unchanged for the qubits 3 and 6 but       *)
(* toggles it for qubit 0, which is also in the topmost row.               *)
C5_LogicalReadout ==
    \A axis \in {"X", "Z"} :
        (params.d = <<3, 3>> /\ (Parsed \/ Extracted) /\ LatticeCall(axis)) =>
            LET first == Chunks[1]
            IN  /\ ret.out.kind = "ok"
                /\ ret.out.logical_readout =
                       IF axis = "X" THEN XorOf(first, {0, 3, 6})
                                     ELSE XorOf(first, {0, 1, 2})
                /\ Logical(first, "X") = XorOf(first, {0, 3, 6})
                /\ Logical(first, "Z") = XorOf(first, {0, 1, 2})
                /\ first = Repeat("0", 9) =>
                       Logical(first, "X") = 0 /\ Logical(first, "Z") = 0
                /\ \A q \in {0, 3, 6} :
                       /\ Logical(Flip(first, q), "X") = 1 - Logical(first, "X")
                       /\ (Logical(Flip(first, q), "Z") = Logical(first, "Z"))
                              <=> (q # 0)

(* C5 as first stated: flipping any data qubit of the leftmost column      *)
(* leaves the Z logical readout unchanged.                                 *)
C5_AsStated ==
    \A axis \in {"X", "Z"} :
        (params.d = <<3, 3>> /\ (Parsed \/ Extracted) /\ LatticeCall(axis)) =>
            LET first == Chunks[1]
            IN  /\ ret.out.kind = "ok"
                /\ Logical(first, "X") = XorOf(first, {0, 3, 6})
                /\ Logical(first, "Z") = XorOf(first, {0, 1, 2})
                /\ \A q \in {0, 3, 6} :
                       /\ Logical(Flip(first, q), "X") = 1 - Logical(first, "X")
                       /\ Logical(Flip(first, q), "Z") = Logical(first, "Z")

C5_Witness ==
    /\ params.d = <<3, 3>>
    /\ Parsed /\ LatticeCall("Z")
    /\ DataBit(Chunks[1], 0) = "1"
    /\ ret.out.kind = "ok"
    /\ ret.out.logical_readout = 1

(* C7: parsing a readout whose first chunk is a full-lattice readout       *)
(* (length > 1) with the axis omitted or not "X"/"Z" fails with an error,  *)
(* returns no result, and leaves the built geometry and the lattice        *)
(* parameters as they were.                                                *)
C7_InvalidAxisFails ==
    (Parsed /\ Len(Chunks[1]) > 1 /\ readout_type \notin {Some("X"), Some("Z")}) =>
        /\ ret.out.kind = "raise"
        /\ ret.out.exc = IF readout_type = None THEN "AssertionError"
                         ELSE IF Len(Chunks) < 2 THEN "IndexError"
                         ELSE "TypeError"
        /\ params = GeneratedParams(params.d)
        /\ geometry = set_geometry(params)

C7_Witness ==
    /\ Parsed
    /\ IsBits(Chunks[1], params.num_data)
    /\ Len(Chunks) >= 2
    /\ readout_type = Some("Y")
    /\ ret.out = Raise("TypeError")

WrongWidth ==
    \/ Len(Chunks[1]) \notin {1, params.num_data}
    \/ \E k \in 2..Len(Chunks) : Len(Chunks[k]) # Width

NonBinaryChar ==
    \E i \in 1..Len(readout_string) : readout_string[i] \notin {"0", "1", " "}

(* C8: parse_readout fails for every readout string with a syndrome chunk  *)
(* whose width differs from num_syn_X + num_syn_Z, a full-lattice chunk    *)
(* whose width differs from num_data, or a non-binary character: no such   *)
(* string yields a (logical_readout, events) result.                       *)
C8_MalformedAlwaysFails ==
    (Parsed /\ (WrongWidth \/ NonBinaryChar)) => ret.out.kind = "raise"

(* The changed character positions between the rounds T and T+1. *)
DiffPos(T) == {i \in 1..Width : Rounds[T + 1][i] # Rounds[T + 2][i]}

(* C9: for d=3 the lattice has num_syn_X = 4 and num_syn_Z = 4; a change   *)
(* between the rounds T and T+1 that is a single flip at X-field position  *)
(* 0 gives exactly the X event (T, -0.5, 0.5), and a single flip at        *)
(* Z-field position 0 gives exactly the Z event (T, 0.5, 0.5).             *)
C9_GoldenEvents ==
    (pc = "ready" /\ params.d = <<3, 3>>) =>
        /\ params.num_syn = <<4, 4>>
        /\ (Parsed /\ LogicalCall) =>
               \A T \in 0..(Len(Rounds) - 2) :
                   /\ DiffPos(T) = {NumSynX} =>
                          /\ EventsAt(ret.out.X, T) = << <<T, -1, 1>> >>
                          /\ EventsAt(ret.out.Z, T) = <<>>
                   /\ DiffPos(T) = {Width} =>
                          /\ EventsAt(ret.out.Z, T) = << <<T, 1, 1>> >>
                          /\ EventsAt(ret.out.X, T) = <<>>

(* C9 as first stated: num_syn_X = 2 and num_syn_Z = 2, and the flip at    *)
(* Z-field position 0 gives the Z event (T, 0.5, -0.5).                    *)
C9_AsStated ==
    (pc = "ready" /\ params.d = <<3, 3>>) =>
        /\ params.num_syn = <<2, 2>>
        /\ (Parsed /\ LogicalCall) =>
               \A T \in 0..(Len(Rounds) - 2) :
                   /\ DiffPos(T) = {NumSynX} =>
                          /\ EventsAt(ret.out.X, T) = << <<T, -1, 1>> >>
                          /\ EventsAt(ret.out.Z, T) = <<>>
                   /\ DiffPos(T) = {Width} =>
                          /\ EventsAt(ret.out.Z, T) = << <<T, 1, -1>> >>
                          /\ EventsAt(ret.out.X, T) = <<>>

C9_Witness ==
    /\ params.d = <<3, 3>>
    /\ Parsed /\ LogicalCall
    /\ Len(Rounds) = 3
    /\ DiffPos(0) = {NumSynX}
    /\ DiffPos(1) = {Width}
    /\ ret.out.kind = "ok"
    /\ ret.out.X = << <<0, -1, 1>> >>
    /\ ret.out.Z = << <<1, 1, 1>> >>


(* The data qubits of the leftmost column and of the topmost row. *)
LeftColumn == {r * params.d[W] : r \in 0..(params.d[H] - 1)}

TopRow == 0..(params.d[W] - 1)

Shared(a, b) == Cardinality(a \cap b)

(* The first chunk with the readout values of all the given data qubits    *)
(* flipped.                                                                *)
FlipAll(first, qubits) ==
    [i \in 1..Len(first) |->
        IF (Len(first) - i) \in qubits
        THEN (IF first[i] = "0" THEN "1" ELSE "0")
        ELSE first[i]]

ExtractOf(first, axis) ==
    extract_final_stabilizer_and_logical_readout(
        params, geometry, first, Chunks[2], axis)

(* C11: for odd dh, dw >= 3 every X plaquette and every Z plaquette share  *)
(* 0 or 2 data qubits, the leftmost column shares an even number of data   *)
(* qubits with every Z plaquette and the topmost row an even number with   *)
(* every X plaquette; flipping the readout values of all data qubits of a  *)
(* Z plaquette changes no reconstructed X stabilizer bit and not the X     *)
(* logical readout, and symmetrically for X plaquettes and the Z axis.     *)
C11_EvenOverlap ==
    \A axis \in {"X", "Z"} :
        (pc = "ready" /\ Extracted /\ LatticeCall(axis)) =>
            LET other == IF axis = "X" THEN geometry.mz ELSE geometry.mx
            IN  /\ \A px \in SeqRange(geometry.mx) : \A pz \in SeqRange(geometry.mz) :
                       Shared(Refs(px), Refs(pz)) \in {0, 2}
                /\ \A pz \in SeqRange(geometry.mz) :
                       Shared(LeftColumn, Refs(pz)) % 2 = 0
                /\ \A px \in SeqRange(geometry.mx) :
                       Shared(TopRow, Refs(px)) % 2 = 0
                /\ ret.out.kind = "ok"
                /\ \A pl \in SeqRange(other) :
                       LET flipped == ExtractOf(FlipAll(Chunks[1], Refs(pl)), axis)
                       IN  /\ flipped.kind = "ok"
                           /\ flipped.stabilizer_str = ret.out.stabilizer_str
                           /\ flipped.logical_readout = ret.out.logical_readout

C11_Witness ==
    /\ pc = "ready"
    /\ params.d = <<3, 5>>
    /\ Extracted /\ LatticeCall("X")
    /\ ret.out.kind = "ok"
    /\ ret.out.logical_readout = 1
    /\ \E i \in 1..NumSynX : ret.out.stabilizer_str[i] = "1"
    /\ \E pz \in SeqRange(geometry.mz) : Shared(LeftColumn, Refs(pz)) = 2
    /\ \E px \in SeqRange(geometry.mx) : \E pz \in SeqRange(geometry.mz) :
           Shared(Refs(px), Refs(pz)) = 2

====
